---- MODULE Spec2Model ----
(***************************************************************************)
(* Rocket Medic: appointment scheduling and doctor availability.          *)
(*                                                                         *)
(* The repositories are insertion-ordered maps (sequences of key/value    *)
(* entries).  Doctors and patients are objects on a heap: a repository    *)
(* entry and an appointment record hold a reference (an index into the    *)
(* heap), so that an assignment to a field of a doctor reached through an *)
(* appointment is seen through the doctor repository as well.  handlers   *)
(* holds the position of every HTTP request handler of the appointment    *)
(* controller; last is the last call made and its outcome.                *)
(***************************************************************************)
EXTENDS Integers, Sequences, FiniteSets, TLC

VARIABLES doctors, doctorData, patients, patientData, appointmentData, handlers, last

vars == <<doctors, doctorData, patients, patientData, appointmentData, handlers, last>>

(***************************************************************************)
(* Bounds of the model.                                                    *)
(***************************************************************************)
\* longest working-hours list under Spec
MaxHours == 1
\* longest working-hours list under HoursSpec
MaxHoursList == 3
\* scheduling requests handled by the server in one behaviour
MaxHandlers == 2
\* doctor objects created in one behaviour of IdentitySpec
MaxDoctorObjects == 2

DoctorKeys == {"d1", "d2"}
PatientKeys == {"p1", "p2"}
AppointmentIds == {"a1", "a2"}
Days == {"Monday", "Tuesday"}

(***************************************************************************)
(* JavaScript values.                                                      *)
(***************************************************************************)
\* undefined, as the result of a Map lookup of object values
Undefined == [undefined |-> TRUE]
\* a missing request field or the empty string: both are falsy
Missing == ""
\* a doctor or patient reference that is undefined
NoRef == 0
\* the number NaN: getTime() of an invalid Date, Number() of a non-number
NaN == -1

Truthy(v) == v # Missing

\* NaN compares false with everything, itself included
NumEq(a, b) == a # NaN /\ b # NaN /\ a = b
NumGe(a, b) == a # NaN /\ b # NaN /\ a >= b
NumLe(a, b) == a # NaN /\ b # NaN /\ a <= b

(***************************************************************************)
(* Dates.  A valid Date is its timestamp in seconds of local time counted *)
(* from a Sunday 00:00:00; an invalid Date has the time NaN.  A request   *)
(* date is a Date, a string (time is what new Date(string) yields) or a   *)
(* value of another type.                                                  *)
(***************************************************************************)
At(day, hour, minute, second) == day * 86400 + hour * 3600 + minute * 60 + second

Mon1000 == At(1, 10, 0, 0)
Mon1001 == At(1, 10, 1, 0)

Timestamps == {Mon1000, Mon1001}

DateObj(t) == [kind |-> "Date", time |-> t]
DateString(t) == [kind |-> "string", time |-> t]
NotADate == [kind |-> "other", time |-> NaN]

\* the dates isDoctorAvailable is called with
DateInputs == {DateObj(t) : t \in Timestamps \cup {NaN}} \cup {DateString(Mon1000)}

instanceofDate(d) == d.kind = "Date"
getTime(d) == d.time

WeekdayNames ==
    <<"Sunday", "Monday", "Tuesday", "Wednesday", "Thursday", "Friday", "Saturday">>

\* a clock string 'hh:mm AM' / 'hh:mm PM' by its parts
ClockString(h, m, p) == [hours |-> h, minutes |-> m, period |-> p]
\* the text 'Invalid Date' that formatting an invalid Date yields
InvalidDateString == [hours |-> NaN, minutes |-> NaN, period |-> "Invalid Date"]

\* date.toLocaleDateString('en-US', {weekday: 'long'})
toLocaleWeekday(d) ==
    IF getTime(d) = NaN THEN "Invalid Date"
    ELSE WeekdayNames[((getTime(d) \div 86400) % 7) + 1]

\* date.toLocaleTimeString('en-US', {hour: '2-digit', minute: '2-digit'})
toLocaleTime(d) ==
    IF getTime(d) = NaN THEN InvalidDateString
    ELSE LET h24 == (getTime(d) % 86400) \div 3600
             mm == (getTime(d) % 3600) \div 60
         IN ClockString(IF h24 % 12 = 0 THEN 12 ELSE h24 % 12, mm,
                        IF h24 < 12 THEN "AM" ELSE "PM")

(***************************************************************************)
(* Working-hours time slots: 'S - E', two clock strings.                   *)
(***************************************************************************)
TimeSlot(s, e) == <<s, e>>

SlotDay == TimeSlot(ClockString(9, 0, "AM"), ClockString(5, 0, "PM"))
SlotNight == TimeSlot(ClockString(12, 0, "AM"), ClockString(8, 0, "AM"))

Slots == {SlotDay, SlotNight}

\* timeToMinutes without the 12 AM case (12:xx AM counted as hour 12)
timeToMinutesNoMidnight(timeStr) ==
    LET hours == timeStr.hours
        adjustedHours == IF timeStr.period = "PM" /\ hours # 12 THEN hours + 12 ELSE hours
    IN IF hours = NaN THEN NaN
       ELSE adjustedHours * 60 + (IF timeStr.minutes = NaN THEN 0 ELSE timeStr.minutes)

\* timeToMinutes of DoctorAvailabilityService.isTimeWithinSlot
timeToMinutes(timeStr) ==
    LET isPM == timeStr.period = "PM"
        isAM == timeStr.period = "AM"
        hours == timeStr.hours
        minutes == timeStr.minutes
        adjustedHours ==
            IF isPM /\ hours # 12 THEN hours + 12
            ELSE IF isAM /\ hours = 12 THEN 0
            ELSE hours
    IN IF hours = NaN THEN NaN
       ELSE adjustedHours * 60 + (IF minutes = NaN THEN 0 ELSE minutes)

isTimeWithinSlot(time, timeSlot) ==
    LET startTime == timeSlot[1]
        endTime == timeSlot[2]
        timeInMinutes == timeToMinutes(time)
        startInMinutes == timeToMinutes(startTime)
        endInMinutes == timeToMinutes(endTime)
    IN NumGe(timeInMinutes, startInMinutes) /\ NumLe(timeInMinutes, endInMinutes)

\* timeToMinutes of DoctorWorkingHoursService.isTimeWithinSlot: the parts split at
\* ':' and ' ', twelve hours added in the afternoon, no case for 12 AM
timeToMinutesWorkingHours(time) ==
    LET hours == time.hours
        minutes == time.minutes
        period == IF time.period = "PM" /\ hours # 12 THEN 12 ELSE 0
    IN IF hours = NaN \/ minutes = NaN THEN NaN
       ELSE (hours + period) * 60 + minutes

\* DoctorWorkingHoursService.isTimeWithinSlot
isTimeWithinSlotWorkingHours(time, timeSlot) ==
    LET startTime == timeSlot[1]
        endTime == timeSlot[2]
        timeInMinutes == timeToMinutesWorkingHours(time)
        startInMinutes == timeToMinutesWorkingHours(startTime)
        endInMinutes == timeToMinutesWorkingHours(endTime)
    IN NumGe(timeInMinutes, startInMinutes) /\ NumLe(timeInMinutes, endInMinutes)

\* isWithinWorkingHours taking a doctor without working hours to work at any time
isWithinWorkingHoursOrUnset(doctor, date) ==
    \/ Len(doctor.hours) = 0
    \/ \E i \in 1..Len(doctor.hours) :
          /\ doctor.hours[i].day = toLocaleWeekday(date)
          /\ isTimeWithinSlot(toLocaleTime(date), doctor.hours[i].timeSlot)

\* doctor.workingHours.hours.some(day matches and the time is within the slot)
isWithinWorkingHours(doctor, date) ==
    LET dayOfWeek == toLocaleWeekday(date)
        timeSlot == toLocaleTime(date)
    IN \E i \in 1..Len(doctor.hours) :
          /\ doctor.hours[i].day = dayOfWeek
          /\ isTimeWithinSlot(timeSlot, doctor.hours[i].timeSlot)

(***************************************************************************)
(* Repository: a Map, kept as the sequence of its entries in insertion    *)
(* order.                                                                  *)
(***************************************************************************)
Entry(k, v) == [key |-> k, value |-> v]

RepoHas(data, id) == \E i \in 1..Len(data) : data[i].key = id

RepoIndex(data, id) == CHOOSE i \in 1..Len(data) : data[i].key = id

\* Map.get: the value, or `absent` when the key is not there
RepoGet(data, id, absent) ==
    IF RepoHas(data, id) THEN data[RepoIndex(data, id)].value ELSE absent

\* Map.set moving a replaced key to the end
RepoSetReinsert(data, id, entity) ==
    Append(SelectSeq(data, LAMBDA e : e.key # id), Entry(id, entity))

\* Map.set: replaces in place, or appends a new entry
RepoSet(data, id, entity) ==
    IF RepoHas(data, id)
    THEN [data EXCEPT ![RepoIndex(data, id)] = Entry(id, entity)]
    ELSE Append(data, Entry(id, entity))

\* Map.delete
RepoRemove(data, id) == SelectSeq(data, LAMBDA e : e.key # id)

\* Array.from(this.data.values())
findAll(data) == [i \in 1..Len(data) |-> data[i].value]

\* the result of add / update / delete: the error raised (Missing if none) and the map
RepoResult(err, data) == [error |-> err, data |-> data]

\* the messages of the errors that add, update and delete raise
AlreadyExists(id) == "Entity with id " \o id \o " already exists."
DoesNotExist(id) == "Entity with id " \o id \o " does not exist."

\* add storing the entity before it raises
RepositoryAddOverwrite(data, id, entity) ==
    IF RepoHas(data, id)
    THEN RepoResult(AlreadyExists(id), RepoSet(data, id, entity))
    ELSE RepoResult(Missing, RepoSet(data, id, entity))

RepositoryAdd(data, id, entity) ==
    IF RepoHas(data, id)
    THEN RepoResult(AlreadyExists(id), data)
    ELSE RepoResult(Missing, RepoSet(data, id, entity))

\* update storing the entity before it raises
RepositoryUpdateCreates(data, id, entity) ==
    IF ~RepoHas(data, id)
    THEN RepoResult(DoesNotExist(id), RepoSet(data, id, entity))
    ELSE RepoResult(Missing, RepoSet(data, id, entity))

RepositoryUpdate(data, id, entity) ==
    IF ~RepoHas(data, id)
    THEN RepoResult(DoesNotExist(id), data)
    ELSE RepoResult(Missing, RepoSet(data, id, entity))

RepositoryDelete(data, id) ==
    IF ~RepoHas(data, id)
    THEN RepoResult(DoesNotExist(id), data)
    ELSE RepoResult(Missing, RepoRemove(data, id))

\* Repository.findById: Map.get, undefined when the key is not there
RepositoryFindById(data, id) == RepoGet(data, id, Undefined)

\* DoctorService.findDoctorById, PatientService.findPatientById: a reference or undefined
findDoctorById(dData, doctorId) == RepoGet(dData, doctorId, NoRef)
findPatientById(pData, patientId) == RepoGet(pData, patientId, NoRef)

(***************************************************************************)
(* AppointmentRepository.findByDoctorId.  The filter callback is the      *)
(* assignment `appointment.doctor.id = doctorId`: it stores doctorId in   *)
(* the doctor object of every stored appointment and keeps the appointment *)
(* when the assigned value is truthy.                                      *)
(***************************************************************************)
\* a filter that keeps nothing
findByDoctorIdNone(aData, doctorId) ==
    SelectSeq(findAll(aData), LAMBDA appointment : FALSE)

\* the appointments the filter returns
findByDoctorId(aData, doctorId) ==
    SelectSeq(findAll(aData), LAMBDA appointment : Truthy(doctorId))

\* the doctor heap after the filter has run over every stored appointment
findByDoctorIdHeap(docs, aData, doctorId) ==
    [r \in DOMAIN docs |->
        IF \E i \in 1..Len(aData) : aData[i].value.doctor = r
        THEN [docs[r] EXCEPT !.id = doctorId]
        ELSE docs[r]]

\* AppointmentRepository.findByPatientId: the same assignment, on the patient object
findByPatientId(aData, patientId) ==
    SelectSeq(findAll(aData), LAMBDA appointment : Truthy(patientId))

\* the patient heap after the filter has run over every stored appointment
findByPatientIdHeap(pats, aData, patientId) ==
    [r \in DOMAIN pats |->
        IF \E i \in 1..Len(aData) : aData[i].value.patient = r
        THEN [pats[r] EXCEPT !.id = patientId]
        ELSE pats[r]]

\* AppointmentRepository.findByStatus: a comparison
findByStatus(aData, status) ==
    SelectSeq(findAll(aData), LAMBDA appointment : appointment.status = status)

(***************************************************************************)
(* DoctorAvailabilityService                                               *)
(***************************************************************************)
\* the conflict check made on the date as checkDate shifts it (by the zone offset)
hasAppointmentConflictShifted(aData, doctorId, date) ==
    LET doctorAppointments == findByDoctorId(aData, doctorId)
    IN \E i \in 1..Len(doctorAppointments) :
          NumEq(getTime(doctorAppointments[i].date), getTime(date) - 3600)

hasAppointmentConflict(aData, doctorId, date) ==
    LET doctorAppointments == findByDoctorId(aData, doctorId)
    IN \E i \in 1..Len(doctorAppointments) :
          NumEq(getTime(doctorAppointments[i].date), getTime(date))

\* what a call raises (error, Missing if it returns), returns (value) and leaves (doctors)
Availability(err, v, docs) == [error |-> err, value |-> v, doctors |-> docs]

\* isDoctorAvailable without the conflict check
isDoctorAvailableHoursOnly(docs, dData, aData, doctorId, date) ==
    LET doctor == findDoctorById(dData, doctorId)
    IN IF doctor = NoRef THEN Availability("Doctor not found", FALSE, docs)
       ELSE IF ~instanceofDate(date) THEN Availability("Invalid date", FALSE, docs)
       ELSE Availability(Missing, isWithinWorkingHours(docs[doctor], date), docs)

isDoctorAvailable(docs, dData, aData, doctorId, date) ==
    LET doctor == findDoctorById(dData, doctorId)
    IN IF doctor = NoRef THEN Availability("Doctor not found", FALSE, docs)
       ELSE IF ~instanceofDate(date) THEN Availability("Invalid date", FALSE, docs)
       ELSE LET heap == findByDoctorIdHeap(docs, aData, doctorId)
            IN IF hasAppointmentConflict(aData, doctorId, date)
               THEN Availability(Missing, FALSE, heap)
               ELSE IF ~isWithinWorkingHours(heap[doctor], date)
               THEN Availability(Missing, FALSE, heap)
               ELSE Availability(Missing, TRUE, heap)

(***************************************************************************)
(* NotificationService                                                     *)
(***************************************************************************)
\* the e-mail notifyAppointmentScheduled sends: the address and the parts of the message
notifyAppointmentScheduled(docs, pats, appointment) ==
    [to |-> pats[appointment.patient].email,
     doctorName |-> docs[appointment.doctor].name,
     formattedDate |-> toLocaleWeekday(appointment.date),
     formattedTime |-> toLocaleTime(appointment.date)]

(***************************************************************************)
(* AppointmentService                                                      *)
(***************************************************************************)
Request(id, date, patientId, doctorId, reason, status) ==
    [id |-> id, date |-> date, patientId |-> patientId, doctorId |-> doctorId,
     patient |-> Undefined, doctor |-> Undefined, reason |-> reason, status |-> status]

\* the other shape: {patient: {id}, doctor: {id}} and no patientId, doctorId
NestedRequest(id, date, patientId, doctorId, reason, status) ==
    [id |-> id, date |-> date, patientId |-> Missing, doctorId |-> Missing,
     patient |-> [id |-> patientId], doctor |-> [id |-> doctorId],
     reason |-> reason, status |-> status]

\* obj?.id
OptionalId(obj) == IF obj = Undefined THEN Missing ELSE obj.id

\* the requests callers send: well-formed ones, for every id, date, patient and
\* doctor (the request with id a2 names its status), and malformed ones
StatusOf(id) == IF id = "a2" THEN "completed" ELSE Missing

WellFormedRequests ==
    {Request(id, DateObj(t), p, d, "checkup", StatusOf(id)) :
        id \in AppointmentIds, t \in Timestamps, p \in PatientKeys, d \in DoctorKeys}
        \cup {Request("a1", DateString(Mon1000), "p1", "d1", "checkup", Missing)}

MalformedRequests ==
    {Request("a1", date, p, "d1", "checkup", Missing) :
        date \in {DateObj(NaN), DateString(NaN), NotADate}, p \in {"p2", Missing}}
        \cup {Request("a1", DateObj(Mon1000), p, d, "checkup", Missing) :
                 p \in {"p1", "p2", Missing}, d \in {"d1", Missing}}

NestedRequests ==
    {NestedRequest("a1", DateObj(Mon1000), p, d, "checkup", Missing) :
        p \in PatientKeys, d \in DoctorKeys}

Requests == WellFormedRequests \cup MalformedRequests \cup NestedRequests

\* what execute raises (error), returns (ret), does (events, in order) and leaves
Executed(err, ret, docs, aData, events) ==
    [error |-> err, ret |-> ret, doctors |-> docs, appointmentData |-> aData,
     events |-> events]

Persisted(id) == [event |-> "add", id |-> id]
Notified(mail) == [event |-> "notify", mail |-> mail]

\* executeCreate with the status always defaulted
executeCreateDefaultStatus(docs, pats, aData, appointmentData_, date, patient, doctor) ==
    LET appointment ==
            [id |-> appointmentData_.id, date |-> date, patient |-> patient,
             doctor |-> doctor, reason |-> appointmentData_.reason,
             status |-> "scheduled", observations |-> ""]
    IN LET added == RepositoryAdd(aData, appointment.id, appointment)
       IN IF added.error # Missing
          THEN Executed(added.error, Undefined, docs, aData, <<>>)
          ELSE Executed(Missing, appointment, docs, added.data,
                        <<Persisted(appointment.id),
                          Notified(notifyAppointmentScheduled(docs, pats, appointment))>>)

\* executeCreate announcing the appointment before it stores it
executeCreateNotifyFirst(docs, pats, aData, appointmentData_, date, patient, doctor) ==
    LET appointment ==
            [id |-> appointmentData_.id, date |-> date, patient |-> patient,
             doctor |-> doctor, reason |-> appointmentData_.reason,
             status |-> IF Truthy(appointmentData_.status)
                        THEN appointmentData_.status ELSE "scheduled",
             observations |-> ""]
        mail == Notified(notifyAppointmentScheduled(docs, pats, appointment))
    IN LET added == RepositoryAdd(aData, appointment.id, appointment)
       IN IF added.error # Missing
          THEN Executed(added.error, Undefined, docs, aData, <<mail>>)
          ELSE Executed(Missing, appointment, docs, added.data,
                        <<mail, Persisted(appointment.id)>>)

\* lines 52-66: the record is built, stored and announced, then returned
executeCreate(docs, pats, aData, appointmentData_, date, patient, doctor) ==
    LET appointment ==
            [id |-> appointmentData_.id,
             date |-> date,
             patient |-> patient,
             doctor |-> doctor,
             reason |-> appointmentData_.reason,
             status |-> IF Truthy(appointmentData_.status)
                        THEN appointmentData_.status ELSE "scheduled",
             observations |-> ""]
    IN LET added == RepositoryAdd(aData, appointment.id, appointment)
       IN IF added.error # Missing
          THEN Executed(added.error, Undefined, docs, aData, <<>>)
          ELSE Executed(Missing, appointment, docs, added.data,
                        <<Persisted(appointment.id),
                          Notified(notifyAppointmentScheduled(docs, pats, appointment))>>)

\* execute going on whatever the availability check answers
executeCheckedBlind(available, pats, aData, appointmentData_, date, patient, doctor) ==
    IF available.error # Missing
    THEN Executed(available.error, Undefined, available.doctors, aData, <<>>)
    ELSE executeCreate(available.doctors, pats, aData, appointmentData_, date,
                       patient, doctor)

\* lines 44-50: the availability check decides
executeChecked(available, pats, aData, appointmentData_, date, patient, doctor) ==
    IF available.error # Missing
    THEN Executed(available.error, Undefined, available.doctors, aData, <<>>)
    ELSE IF ~available.value
    THEN Executed("Doctor is not available at the requested time", Undefined,
                  available.doctors, aData, <<>>)
    ELSE executeCreate(available.doctors, pats, aData, appointmentData_, date,
                       patient, doctor)

\* execute looking the doctor up before the patient
executeDoctorFirst(docs, dData, pats, pData, aData, appointmentData_) ==
    LET date == IF appointmentData_.date.kind = "string"
                THEN DateObj(appointmentData_.date.time)
                ELSE appointmentData_.date
        patientId == IF Truthy(appointmentData_.patientId)
                     THEN appointmentData_.patientId
                     ELSE OptionalId(appointmentData_.patient)
        doctorId == IF Truthy(appointmentData_.doctorId)
                    THEN appointmentData_.doctorId
                    ELSE OptionalId(appointmentData_.doctor)
        patient == findPatientById(pData, patientId)
        doctor == findDoctorById(dData, doctorId)
    IN IF ~instanceofDate(date) \/ getTime(date) = NaN
       THEN Executed("Invalid appointment date", Undefined, docs, aData, <<>>)
       ELSE IF ~Truthy(patientId) \/ ~Truthy(doctorId)
       THEN Executed("Patient ID and Doctor ID are required", Undefined, docs, aData, <<>>)
       ELSE IF doctor = NoRef
       THEN Executed("Doctor not found", Undefined, docs, aData, <<>>)
       ELSE IF patient = NoRef
       THEN Executed("Patient not found", Undefined, docs, aData, <<>>)
       ELSE executeChecked(isDoctorAvailable(docs, dData, aData, doctorId, date),
                           pats, aData, appointmentData_, date, patient, doctor)

\* execute checking the ids before the date
executeIdsFirst(docs, dData, pats, pData, aData, appointmentData_) ==
    LET date == IF appointmentData_.date.kind = "string"
                THEN DateObj(appointmentData_.date.time)
                ELSE appointmentData_.date
        patientId == IF Truthy(appointmentData_.patientId)
                     THEN appointmentData_.patientId
                     ELSE OptionalId(appointmentData_.patient)
        doctorId == IF Truthy(appointmentData_.doctorId)
                    THEN appointmentData_.doctorId
                    ELSE OptionalId(appointmentData_.doctor)
        patient == findPatientById(pData, patientId)
        doctor == findDoctorById(dData, doctorId)
    IN IF ~Truthy(patientId) \/ ~Truthy(doctorId)
       THEN Executed("Patient ID and Doctor ID are required", Undefined, docs, aData, <<>>)
       ELSE IF ~instanceofDate(date) \/ getTime(date) = NaN
       THEN Executed("Invalid appointment date", Undefined, docs, aData, <<>>)
       ELSE IF patient = NoRef
       THEN Executed("Patient not found", Undefined, docs, aData, <<>>)
       ELSE IF doctor = NoRef
       THEN Executed("Doctor not found", Undefined, docs, aData, <<>>)
       ELSE executeChecked(isDoctorAvailable(docs, dData, aData, doctorId, date),
                           pats, aData, appointmentData_, date, patient, doctor)

\* execute reading the flat fields only
executeFlatOnly(docs, dData, pats, pData, aData, appointmentData_) ==
    LET date == IF appointmentData_.date.kind = "string"
                THEN DateObj(appointmentData_.date.time)
                ELSE appointmentData_.date
        patientId == appointmentData_.patientId
        doctorId == appointmentData_.doctorId
        patient == findPatientById(pData, patientId)
        doctor == findDoctorById(dData, doctorId)
    IN IF ~instanceofDate(date) \/ getTime(date) = NaN
       THEN Executed("Invalid appointment date", Undefined, docs, aData, <<>>)
       ELSE IF ~Truthy(patientId) \/ ~Truthy(doctorId)
       THEN Executed("Patient ID and Doctor ID are required", Undefined, docs, aData, <<>>)
       ELSE IF patient = NoRef
       THEN Executed("Patient not found", Undefined, docs, aData, <<>>)
       ELSE IF doctor = NoRef
       THEN Executed("Doctor not found", Undefined, docs, aData, <<>>)
       ELSE executeChecked(isDoctorAvailable(docs, dData, aData, doctorId, date),
                           pats, aData, appointmentData_, date, patient, doctor)

execute(docs, dData, pats, pData, aData, appointmentData_) ==
    LET date == IF appointmentData_.date.kind = "string"
                THEN DateObj(appointmentData_.date.time)
                ELSE appointmentData_.date
        patientId == IF Truthy(appointmentData_.patientId)
                     THEN appointmentData_.patientId
                     ELSE OptionalId(appointmentData_.patient)
        doctorId == IF Truthy(appointmentData_.doctorId)
                    THEN appointmentData_.doctorId
                    ELSE OptionalId(appointmentData_.doctor)
        patient == findPatientById(pData, patientId)
        doctor == findDoctorById(dData, doctorId)
    IN IF ~instanceofDate(date) \/ getTime(date) = NaN
       THEN Executed("Invalid appointment date", Undefined, docs, aData, <<>>)
       ELSE IF ~Truthy(patientId) \/ ~Truthy(doctorId)
       THEN Executed("Patient ID and Doctor ID are required", Undefined, docs, aData, <<>>)
       ELSE IF patient = NoRef
       THEN Executed("Patient not found", Undefined, docs, aData, <<>>)
       ELSE IF doctor = NoRef
       THEN Executed("Doctor not found", Undefined, docs, aData, <<>>)
       ELSE executeChecked(isDoctorAvailable(docs, dData, aData, doctorId, date),
                           pats, aData, appointmentData_, date, patient, doctor)

\* AppointmentService.findById: the record, or the error it raises
findById(aData, id) ==
    LET appointment == RepoGet(aData, id, Undefined)
    IN IF appointment = Undefined
       THEN [error |-> "Appointment not found", ret |-> Undefined]
       ELSE [error |-> Missing, ret |-> appointment]

(***************************************************************************)
(* Entities                                                                *)
(***************************************************************************)
\* new Doctor(id, rcm, name, specialty, phoneNumber): workingHours starts empty
Doctor(id, name) == [id |-> id, name |-> name, hours |-> <<>>]

\* new Patient(id, ..., email, ...)
Patient(id, email) == [id |-> id, email |-> email, allergies |-> <<>>]

\* the doctors and patients that callers register
DoctorInputs == {[id |-> "d1", name |-> "Smith"], [id |-> "d2", name |-> "Jones"]}
PatientInputs == {[id |-> "p1", email |-> "john@example.com"]}

(***************************************************************************)
(* AppointmentController: the handlers of POST /api/appointments.  A      *)
(* handler is idle until its request arrives, awaiting after execute has  *)
(* returned (the `await` of its value), responded once the response is    *)
(* sent.                                                                   *)
(***************************************************************************)
Handlers == 1..MaxHandlers

Handler(pc, req, err, ret, status) ==
    [pc |-> pc, req |-> req, error |-> err, ret |-> ret, status |-> status]

IdleHandler == Handler("idle", Undefined, Missing, Undefined, Undefined)

(***************************************************************************)
(* The state after construction: empty repositories, no request yet.      *)
(***************************************************************************)
Init ==
    /\ doctors = <<>>
    /\ doctorData = <<>>
    /\ patients = <<>>
    /\ patientData = <<>>
    /\ appointmentData = <<>>
    /\ handlers = [h \in Handlers |-> IdleHandler]
    /\ last = [op |-> "none", error |-> Missing]

(***************************************************************************)
(* DoctorService.addDoctor                                                 *)
(***************************************************************************)
AddDoctor(doctorData_) ==
    LET doctor == Doctor(doctorData_.id, doctorData_.name)
        ref == Len(doctors) + 1
        added == RepositoryAdd(doctorData, doctor.id, ref)
    IN /\ doctors' = IF added.error = Missing THEN Append(doctors, doctor) ELSE doctors
       /\ doctorData' = added.data
       /\ last' = [op |-> "addDoctor", doctorId |-> doctorData_.id, error |-> added.error]
       /\ UNCHANGED <<handlers, patients, patientData, appointmentData>>

(***************************************************************************)
(* PatientService.addPatient                                               *)
(***************************************************************************)
AddPatient(patientData_) ==
    LET patient == Patient(patientData_.id, patientData_.email)
        ref == Len(patients) + 1
        added == RepositoryAdd(patientData, patient.id, ref)
    IN /\ patients' = IF added.error = Missing THEN Append(patients, patient) ELSE patients
       /\ patientData' = added.data
       /\ last' = [op |-> "addPatient", patientId |-> patientData_.id, error |-> added.error]
       /\ UNCHANGED <<handlers, doctors, doctorData, appointmentData>>

(***************************************************************************)
(* DoctorService.updateDoctor and deleteDoctor                             *)
(***************************************************************************)
\* what a doctor operation raises and the doctor heap and repository it leaves
DoctorResult(err, docs, dData) == [error |-> err, doctors |-> docs, doctorData |-> dData]

\* Object.assign(doctor, updatedData), then the update under the key asked for
updateDoctor(docs, dData, doctorId, updatedData) ==
    LET doctor == findDoctorById(dData, doctorId)
        assigned ==
            [docs EXCEPT ![doctor] =
                [f \in DOMAIN @ |->
                    IF f \in DOMAIN updatedData THEN updatedData[f] ELSE @[f]]]
        updated == RepositoryUpdate(dData, doctorId, doctor)
    IN IF doctor = NoRef THEN DoctorResult("Doctor not found", docs, dData)
       ELSE DoctorResult(updated.error, assigned, updated.data)

\* the entry deleted is the one under the id that the doctor object carries
deleteDoctor(docs, dData, doctorId) ==
    LET doctor == findDoctorById(dData, doctorId)
        deleted == RepositoryDelete(dData, docs[doctor].id)
    IN IF doctor = NoRef THEN DoctorResult("Doctor not found", docs, dData)
       ELSE DoctorResult(deleted.error, docs, deleted.data)

UpdateDoctor(doctorId, updatedData) ==
    \E done \in {updateDoctor(doctors, doctorData, doctorId, updatedData)} :
       /\ doctors' = done.doctors
       /\ doctorData' = done.doctorData
       /\ last' = [op |-> "updateDoctor", doctorId |-> doctorId, error |-> done.error]
       /\ UNCHANGED <<handlers, patients, patientData, appointmentData>>

DeleteDoctor(doctorId) ==
    \E done \in {deleteDoctor(doctors, doctorData, doctorId)} :
       /\ doctors' = done.doctors
       /\ doctorData' = done.doctorData
       /\ last' = [op |-> "deleteDoctor", doctorId |-> doctorId, error |-> done.error]
       /\ UNCHANGED <<handlers, patients, patientData, appointmentData>>

(***************************************************************************)
(* AppointmentRepository.findByDoctorId and findByPatientId, called       *)
(* directly                                                                *)
(***************************************************************************)
FindByDoctorId(doctorId) ==
    /\ doctors' = findByDoctorIdHeap(doctors, appointmentData, doctorId)
    /\ last' = [op |-> "findByDoctorId", doctorId |-> doctorId, error |-> Missing,
                value |-> findByDoctorId(appointmentData, doctorId)]
    /\ UNCHANGED <<handlers, doctorData, patients, patientData, appointmentData>>

FindByPatientId(patientId) ==
    /\ patients' = findByPatientIdHeap(patients, appointmentData, patientId)
    /\ last' = [op |-> "findByPatientId", patientId |-> patientId, error |-> Missing,
                value |-> findByPatientId(appointmentData, patientId)]
    /\ UNCHANGED <<handlers, doctors, doctorData, patientData, appointmentData>>

(***************************************************************************)
(* PatientService.addPatientAllergy                                        *)
(***************************************************************************)
\* new Allergy(type), and a plain object that is not an Allergy
Allergy(type) == [kind |-> "Allergy", type |-> type]
NotAnAllergy == [kind |-> "Object", type |-> "Peanuts"]

instanceofAllergy(allergy) == allergy.kind = "Allergy"

\* a.equals(allergy): allergies of equal type are equal
equals(a, allergy) == a.type = allergy.type

\* what a patient operation raises and the patient heap and repository it leaves
PatientResult(err, pats, pData) == [error |-> err, patients |-> pats, patientData |-> pData]

\* updatePatient: Object.assign(patient, updatedData), then the repository update
updatePatient(pats, pData, patientId, updatedData) ==
    LET patient == findPatientById(pData, patientId)
        assigned ==
            [pats EXCEPT ![patient] =
                [f \in DOMAIN @ |->
                    IF f \in DOMAIN updatedData THEN updatedData[f] ELSE @[f]]]
        updated == RepositoryUpdate(pData, patientId, patient)
    IN IF patient = NoRef THEN PatientResult("Patient not found", pats, pData)
       ELSE PatientResult(updated.error, assigned, updated.data)

\* addPatientAllergy pushing the allergy whether the patient has it or not
addPatientAllergyAlways(pats, pData, patientId, allergy) ==
    LET patient == findPatientById(pData, patientId)
        pushed == [pats EXCEPT ![patient].allergies = Append(@, allergy)]
    IN IF patient = NoRef THEN PatientResult("Patient not found", pats, pData)
       ELSE IF ~instanceofAllergy(allergy) THEN PatientResult("Invalid allergy", pats, pData)
       ELSE updatePatient(pushed, pData, patientId, pushed[patient])

addPatientAllergy(pats, pData, patientId, allergy) ==
    LET patient == findPatientById(pData, patientId)
        hasAllergy ==
            \E i \in 1..Len(pats[patient].allergies) :
                equals(pats[patient].allergies[i], allergy)
        pushed ==
            IF ~hasAllergy
            THEN [pats EXCEPT ![patient].allergies = Append(@, allergy)]
            ELSE pats
    IN IF patient = NoRef THEN PatientResult("Patient not found", pats, pData)
       ELSE IF ~instanceofAllergy(allergy) THEN PatientResult("Invalid allergy", pats, pData)
       ELSE updatePatient(pushed, pData, patientId, pushed[patient])

AddPatientAllergy(patientId, allergy) ==
    \E done \in {addPatientAllergy(patients, patientData, patientId, allergy)} :
       /\ patients' = done.patients
       /\ patientData' = done.patientData
       /\ last' = [op |-> "addPatientAllergy", patientId |-> patientId,
                   allergy |-> allergy, error |-> done.error]
       /\ UNCHANGED <<handlers, doctors, doctorData, appointmentData>>

(***************************************************************************)
(* DoctorWorkingHoursService                                               *)
(***************************************************************************)
WorkingHour(day, timeSlot) == [day |-> day, timeSlot |-> timeSlot]

\* the working hours that callers set under Spec
HourInputs == {WorkingHour("Monday", SlotDay), WorkingHour("Tuesday", SlotDay)}

\* hasWorkingHours looking at the latest entry only
hasWorkingHoursLatest(doctor, day, timeSlot) ==
    /\ Len(doctor.hours) > 0
    /\ doctor.hours[Len(doctor.hours)].day = day
    /\ doctor.hours[Len(doctor.hours)].timeSlot = timeSlot

hasWorkingHours(doctor, day, timeSlot) ==
    \E i \in 1..Len(doctor.hours) :
        doctor.hours[i].day = day /\ doctor.hours[i].timeSlot = timeSlot

\* what the call raises and the doctor heap and repository it leaves
HoursResult(err, docs, dData) == [error |-> err, doctors |-> docs, doctorData |-> dData]

addDoctorWorkingHours(docs, dData, doctorId, day, timeSlot) ==
    LET doctor == findDoctorById(dData, doctorId)
        pushed == [docs EXCEPT ![doctor].hours = Append(@, WorkingHour(day, timeSlot))]
        updated == RepositoryUpdate(dData, docs[doctor].id, doctor)
    IN IF doctor = NoRef THEN HoursResult("Doctor not found", docs, dData)
       ELSE IF hasWorkingHours(docs[doctor], day, timeSlot)
       THEN HoursResult("Working hours already exists for this doctor", docs, dData)
       ELSE HoursResult(updated.error, pushed, updated.data)

removeWorkingHours(docs, dData, doctorId, day, timeSlot) ==
    LET doctor == findDoctorById(dData, doctorId)
        filtered ==
            [docs EXCEPT ![doctor].hours =
                SelectSeq(@, LAMBDA hour : hour.day # day /\ hour.timeSlot # timeSlot)]
        updated == RepositoryUpdate(dData, docs[doctor].id, doctor)
    IN IF doctor = NoRef THEN HoursResult("Doctor not found", docs, dData)
       ELSE HoursResult(updated.error, filtered, updated.data)

\* listWorkingHours: the error it raises and the value it returns.  hours is an
\* array, and the call `doctor.workingHours.hours()` raises a TypeError
listWorkingHours(docs, dData, doctorId) ==
    LET doctor == findDoctorById(dData, doctorId)
    IN IF doctor = NoRef THEN [error |-> "Doctor not found", value |-> Undefined]
       ELSE [error |-> "doctor.workingHours.hours is not a function",
             value |-> Undefined]

AddDoctorWorkingHours(doctorId, day, timeSlot, maxLen) ==
    \E done \in {addDoctorWorkingHours(doctors, doctorData, doctorId, day, timeSlot)} :
       /\ \A r \in DOMAIN done.doctors : Len(done.doctors[r].hours) <= maxLen
       /\ doctors' = done.doctors
       /\ doctorData' = done.doctorData
       /\ last' = [op |-> "addDoctorWorkingHours", doctorId |-> doctorId, day |-> day,
                   timeSlot |-> timeSlot, error |-> done.error]
       /\ UNCHANGED <<handlers, patients, patientData, appointmentData>>

RemoveWorkingHours(doctorId, day, timeSlot) ==
    \E done \in {removeWorkingHours(doctors, doctorData, doctorId, day, timeSlot)} :
       /\ doctors' = done.doctors
       /\ doctorData' = done.doctorData
       /\ last' = [op |-> "removeWorkingHours", doctorId |-> doctorId, day |-> day,
                   timeSlot |-> timeSlot, error |-> done.error]
       /\ UNCHANGED <<handlers, patients, patientData, appointmentData>>

(***************************************************************************)
(* DoctorAvailabilityService.isDoctorAvailable, called directly            *)
(***************************************************************************)
IsDoctorAvailable(doctorId, date) ==
    \E done \in {isDoctorAvailable(doctors, doctorData, appointmentData, doctorId, date)} :
       /\ doctors' = done.doctors
       /\ last' = [op |-> "isDoctorAvailable", doctorId |-> doctorId, date |-> date,
                   error |-> done.error, value |-> done.value]
       /\ UNCHANGED <<handlers, doctorData, patients, patientData, appointmentData>>

(***************************************************************************)
(* AppointmentService.execute                                              *)
(***************************************************************************)
Execute(req) ==
    \E done \in {execute(doctors, doctorData, patients, patientData, appointmentData, req)} :
       /\ doctors' = done.doctors
       /\ appointmentData' = done.appointmentData
       /\ last' = [op |-> "execute", req |-> req, error |-> done.error,
                   ret |-> done.ret, events |-> done.events]
       /\ UNCHANGED <<handlers, doctorData, patients, patientData>>

Next ==
    \/ \E d \in DoctorInputs : AddDoctor(d)
    \/ \E p \in PatientInputs : AddPatient(p)
    \/ \E d \in DoctorKeys, h \in HourInputs :
          AddDoctorWorkingHours(d, h.day, h.timeSlot, MaxHours)
    \/ \E d \in DoctorKeys, h \in HourInputs :
          RemoveWorkingHours(d, h.day, h.timeSlot)
    \/ \E d \in DoctorKeys, date \in DateInputs : IsDoctorAvailable(d, date)
    \/ \E req \in Requests : Execute(req)

Spec == Init /\ [][Next]_vars

(***************************************************************************)
(* HoursSpec: the doctor registry and the working-hours service alone,    *)
(* over every day and slot and with longer lists.                          *)
(***************************************************************************)
NextHours ==
    \/ \E d \in DoctorInputs : AddDoctor(d)
    \/ \E d \in DoctorKeys, day \in Days, slot \in Slots :
          AddDoctorWorkingHours(d, day, slot, MaxHoursList)
    \/ \E d \in DoctorKeys, day \in Days, slot \in Slots :
          RemoveWorkingHours(d, day, slot)

HoursSpec == Init /\ [][NextHours]_vars

(***************************************************************************)
(* OverlapSpec: doctors and working-hours additions, with slots that      *)
(* share part of the day.                                                  *)
(***************************************************************************)
SlotMorning == TimeSlot(ClockString(8, 0, "AM"), ClockString(12, 0, "PM"))

OverlappingSlots == {SlotDay, SlotMorning}

NextOverlap ==
    \/ \E d \in DoctorInputs : AddDoctor(d)
    \/ \E d \in DoctorKeys, day \in Days, slot \in OverlappingSlots :
          AddDoctorWorkingHours(d, day, slot, MaxHoursList)

OverlapSpec == Init /\ [][NextOverlap]_vars

(***************************************************************************)
(* AllergySpec: patients and their allergies.                              *)
(***************************************************************************)
AllergyTypes == {"Peanuts", "Shellfish", "Penicillin"}
AllergyInputs == {Allergy(type) : type \in AllergyTypes} \cup {NotAnAllergy}

\* the patients registered under AllergySpec
AllergyPatients == PatientInputs \cup {[id |-> "p2", email |-> "mary@example.com"]}

NextAllergy ==
    \/ \E p \in AllergyPatients : AddPatient(p)
    \/ \E p \in PatientKeys, allergy \in AllergyInputs : AddPatientAllergy(p, allergy)

AllergySpec == Init /\ [][NextAllergy]_vars

(***************************************************************************)
(* SlotSpec: isTimeWithinSlot as a function of its inputs.  A behaviour   *)
(* starts with a clock time and a slot and makes the one call.             *)
(***************************************************************************)
ClockTimes == {ClockString(h, m, p) : h \in 1..12, m \in {0, 30}, p \in {"AM", "PM"}}
SlotBounds ==
    {ClockString(h, m, p) : h \in {12, 1, 5, 8, 9, 11}, m \in {0, 30}, p \in {"AM", "PM"}}

InitSlot ==
    /\ doctors = <<>>
    /\ doctorData = <<>>
    /\ patients = <<>>
    /\ patientData = <<>>
    /\ appointmentData = <<>>
    /\ handlers = [h \in Handlers |-> IdleHandler]
    /\ \E t \in ClockTimes, s \in SlotBounds, e \in SlotBounds :
          last = [op |-> "input", time |-> t, timeSlot |-> TimeSlot(s, e)]

IsTimeWithinSlot ==
    /\ last.op = "input"
    /\ last' = [op |-> "isTimeWithinSlot", time |-> last.time, timeSlot |-> last.timeSlot,
                value |-> isTimeWithinSlot(last.time, last.timeSlot)]
    /\ UNCHANGED <<handlers, doctors, doctorData, patients, patientData, appointmentData>>

\* the same call on the DoctorWorkingHoursService
WorkingHoursIsTimeWithinSlot ==
    /\ last.op = "input"
    /\ last' = [op |-> "workingHoursIsTimeWithinSlot", time |-> last.time,
                timeSlot |-> last.timeSlot,
                value |-> isTimeWithinSlotWorkingHours(last.time, last.timeSlot)]
    /\ UNCHANGED <<handlers, doctors, doctorData, patients, patientData, appointmentData>>

NextSlot == IsTimeWithinSlot \/ WorkingHoursIsTimeWithinSlot

SlotSpec == InitSlot /\ [][NextSlot]_vars

(***************************************************************************)
(* RepoSpec: one Repository used directly.  Its Map is appointmentData;   *)
(* the entities are plain objects.                                         *)
(***************************************************************************)
RepoIds == {"1", "2", "3"}
Entities == {[name |-> "Entity 1"], [name |-> "Entity 2"]}

\* the call made, the error it raised (Missing if none) and the value it returned
Called(op, id, entity, err, value) ==
    [op |-> op, id |-> id, entity |-> entity, error |-> err, value |-> value]

Add(id, entity) ==
    \E done \in {RepositoryAdd(appointmentData, id, entity)} :
       /\ appointmentData' = done.data
       /\ last' = Called("add", id, entity, done.error, Undefined)
       /\ UNCHANGED <<handlers, doctors, doctorData, patients, patientData>>

Update(id, entity) ==
    \E done \in {RepositoryUpdate(appointmentData, id, entity)} :
       /\ appointmentData' = done.data
       /\ last' = Called("update", id, entity, done.error, Undefined)
       /\ UNCHANGED <<handlers, doctors, doctorData, patients, patientData>>

Delete(id) ==
    \E done \in {RepositoryDelete(appointmentData, id)} :
       /\ appointmentData' = done.data
       /\ last' = Called("delete", id, Undefined, done.error, Undefined)
       /\ UNCHANGED <<handlers, doctors, doctorData, patients, patientData>>

FindById(id) ==
    /\ last' = Called("findById", id, Undefined, Missing,
                      RepositoryFindById(appointmentData, id))
    /\ UNCHANGED <<handlers, doctors, doctorData, patients, patientData, appointmentData>>

FindAll ==
    /\ last' = Called("findAll", Undefined, Undefined, Missing, findAll(appointmentData))
    /\ UNCHANGED <<handlers, doctors, doctorData, patients, patientData, appointmentData>>

NextRepo ==
    \/ \E id \in RepoIds, entity \in Entities : Add(id, entity)
    \/ \E id \in RepoIds, entity \in Entities : Update(id, entity)
    \/ \E id \in RepoIds : Delete(id)
    \/ \E id \in RepoIds : FindById(id)
    \/ FindAll

RepoSpec == Init /\ [][NextRepo]_vars

(***************************************************************************)
(* ServerSpec: the server handling scheduling requests.  A handler runs   *)
(* scheduleAppointment up to its `await`: execute is an ordinary          *)
(* synchronous call, so it has returned or raised by then.  If it raised, *)
(* the catch block answers 400 at once; otherwise the handler is          *)
(* suspended and answers 201 when it is resumed, and other handlers may   *)
(* run in between.                                                         *)
(***************************************************************************)
\* the requests sent to the server: for both doctors at one time, one a minute
\* later, one of an unknown patient
ServerRequests ==
    {Request(id, DateObj(Mon1000), "p1", d, "checkup", Missing) :
        id \in AppointmentIds, d \in DoctorKeys}
        \cup {Request("a2", DateObj(Mon1001), "p1", "d1", "checkup", Missing),
              Request("a2", DateObj(Mon1000), "p2", "d1", "checkup", Missing)}

\* the working hours that doctors have under ServerSpec
ServerHours == WorkingHour("Monday", SlotDay)

\* lines 17-20 and, when execute raises, 22-23
ScheduleAppointment(h, req) ==
    /\ handlers[h].pc = "idle"
    /\ \A g \in Handlers : g < h => handlers[g].pc # "idle"
    /\ \E done \in {execute(doctors, doctorData, patients, patientData,
                             appointmentData, req)} :
          /\ doctors' = done.doctors
          /\ appointmentData' = done.appointmentData
          /\ handlers' =
                [handlers EXCEPT ![h] =
                    IF done.error # Missing
                    THEN Handler("responded", req, done.error, Undefined, 400)
                    ELSE Handler("awaiting", req, Missing, done.ret, Undefined)]
          /\ last' = [op |-> "execute", req |-> req, error |-> done.error,
                      ret |-> done.ret, events |-> done.events]
    /\ UNCHANGED <<doctorData, patients, patientData>>

\* line 21, after the await
Respond(h) ==
    /\ handlers[h].pc = "awaiting"
    /\ handlers' = [handlers EXCEPT ![h].pc = "responded", ![h].status = 201]
    /\ last' = [op |-> "respond", handler |-> h, error |-> Missing]
    /\ UNCHANGED <<doctors, doctorData, patients, patientData, appointmentData>>

NextServer ==
    \/ \E d \in DoctorInputs : AddDoctor(d)
    \/ \E p \in PatientInputs : AddPatient(p)
    \/ \E d \in DoctorKeys :
          AddDoctorWorkingHours(d, ServerHours.day, ServerHours.timeSlot, MaxHours)
    \/ \E h \in Handlers, req \in ServerRequests : ScheduleAppointment(h, req)
    \/ \E h \in Handlers : Respond(h)

ServerSpec == Init /\ [][NextServer]_vars

(***************************************************************************)
(* IdentitySpec: the doctor registry with updates and deletions, the      *)
(* working hours, scheduling, the availability check and the repository   *)
(* filters.                                                                *)
(***************************************************************************)
\* the requests that execute is called with under IdentitySpec
IdentityRequests ==
    {Request("a1", DateObj(Mon1000), "p1", d, "checkup", Missing) : d \in DoctorKeys}
        \cup {Request("a2", DateObj(Mon1001), "p1", "d1", "checkup", Missing)}

\* the data that updateDoctor is called with
DoctorUpdates == {[name |-> "Brown"]}

NextIdentity ==
    \/ \E d \in DoctorInputs : Len(doctors) < MaxDoctorObjects /\ AddDoctor(d)
    \/ \E p \in PatientInputs : AddPatient(p)
    \/ \E d \in DoctorKeys, u \in DoctorUpdates : UpdateDoctor(d, u)
    \/ \E d \in DoctorKeys : DeleteDoctor(d)
    \/ \E d \in DoctorKeys :
          AddDoctorWorkingHours(d, ServerHours.day, ServerHours.timeSlot, MaxHours)
    \/ \E d \in DoctorKeys :
          RemoveWorkingHours(d, ServerHours.day, ServerHours.timeSlot)
    \/ \E d \in DoctorKeys : IsDoctorAvailable(d, DateObj(Mon1000))
    \/ \E req \in IdentityRequests : Execute(req)
    \/ \E d \in DoctorKeys : FindByDoctorId(d)
    \/ \E p \in PatientKeys : FindByPatientId(p)

IdentitySpec == Init /\ [][NextIdentity]_vars

(***************************************************************************)
(* The doctor controllers: DoctorWorkingHoursController and               *)
(* DoctorAvailabilityController.  Each handler answers with a status and  *)
(* a JSON body; none of them is suspended before it has answered.         *)
(***************************************************************************)
Response(status, body) == [status |-> status, body |-> body]

ErrorBody(message) == [error |-> message]

\* the catch block of addWorkingHours
addWorkingHoursCatch(message) ==
    IF message = "Doctor not found." THEN Response(404, ErrorBody(message))
    ELSE IF message = "Working hours already exists for this doctor"
    THEN Response(400, ErrorBody(message))
    ELSE Response(500, ErrorBody("Internal server error."))

\* the catch block of removeWorkingHours and of listWorkingHours
workingHoursCatch(message) ==
    IF message = "Doctor not found." THEN Response(404, ErrorBody(message))
    ELSE Response(400, ErrorBody(message))

\* the catch block of checkAvailability
checkAvailabilityCatch(message) ==
    IF message = "Doctor not found." THEN Response(404, ErrorBody(message))
    ELSE Response(500, ErrorBody("Internal server error."))

\* new Date(value) for a request field: undefined and unparseable text give an
\* invalid Date
newDate(value) ==
    IF value = Undefined THEN DateObj(NaN) ELSE DateObj(value.time)

\* checkAvailability: the service sees the text of the query, not dateObj
checkAvailability(docs, dData, aData, doctorId, queryDate) ==
    IF getTime(newDate(queryDate)) = NaN
    THEN [error |-> "Invalid date format.",
          response |-> checkAvailabilityCatch("Invalid date format.")]
    ELSE LET availability == isDoctorAvailable(docs, dData, aData, doctorId, queryDate)
         IN IF availability.error # Missing
            THEN [error |-> availability.error,
                  response |-> checkAvailabilityCatch(availability.error)]
            ELSE [error |-> Missing,
                  response |-> Response(200, [available |-> availability.value])]

\* the call of a handler and its answer
Answered(op, doctorId, err, response) ==
    [op |-> op, doctorId |-> doctorId, error |-> err,
     status |-> response.status, body |-> response.body]

\* POST /:id/working-hours
ControllerAddWorkingHours(id, day, timeSlot) ==
    \E done \in {addDoctorWorkingHours(doctors, doctorData, id, day, timeSlot)} :
       /\ \A r \in DOMAIN done.doctors : Len(done.doctors[r].hours) <= MaxHours
       /\ doctors' = done.doctors
       /\ doctorData' = done.doctorData
       /\ last' = Answered("POST working-hours", id, done.error,
                           IF done.error = Missing
                           THEN Response(200, done.doctors[findDoctorById(doctorData, id)])
                           ELSE addWorkingHoursCatch(done.error))
       /\ UNCHANGED <<handlers, patients, patientData, appointmentData>>

\* DELETE /:id/working-hours
ControllerRemoveWorkingHours(id, day, timeSlot) ==
    \E done \in {removeWorkingHours(doctors, doctorData, id, day, timeSlot)} :
       /\ doctors' = done.doctors
       /\ doctorData' = done.doctorData
       /\ last' = Answered("DELETE working-hours", id, done.error,
                           IF done.error = Missing
                           THEN Response(200, done.doctors[findDoctorById(doctorData, id)])
                           ELSE workingHoursCatch(done.error))
       /\ UNCHANGED <<handlers, patients, patientData, appointmentData>>

\* GET /:id/working-hours
ControllerListWorkingHours(id) ==
    \E done \in {listWorkingHours(doctors, doctorData, id)} :
       /\ last' = Answered("GET working-hours", id, done.error,
                           IF done.error = Missing
                           THEN Response(200, done.value)
                           ELSE workingHoursCatch(done.error))
       /\ UNCHANGED <<handlers, doctors, doctorData, patients, patientData,
                      appointmentData>>

\* POST availability: the date sent in the query string and the date sent in the body
CheckAvailability(doctorId, queryDate, bodyDate) ==
    \E done \in {checkAvailability(doctors, doctorData, appointmentData, doctorId,
                                   queryDate)} :
       /\ last' = Answered("POST availability", doctorId, done.error, done.response)
                      @@ [query |-> queryDate, date |-> bodyDate]
       /\ UNCHANGED <<handlers, doctors, doctorData, patients, patientData,
                      appointmentData>>

\* the dates a client sends: none, an ISO date, text that is not a date
SentDates == {Undefined, DateString(Mon1000), DateString(NaN)}

NextApi ==
    \/ \E d \in DoctorInputs : AddDoctor(d)
    \/ \E d \in DoctorKeys, h \in HourInputs :
          ControllerAddWorkingHours(d, h.day, h.timeSlot)
    \/ \E d \in DoctorKeys, h \in HourInputs :
          ControllerRemoveWorkingHours(d, h.day, h.timeSlot)
    \/ \E d \in DoctorKeys : ControllerListWorkingHours(d)
    \/ \E d \in DoctorKeys, q \in SentDates, b \in SentDates :
          CheckAvailability(d, q, b)

ApiSpec == Init /\ [][NextApi]_vars

(***************************************************************************)
(* C3.  isTimeWithinSlot(T, 'S - E') is minutes(S) <= minutes(T) <=        *)
(* minutes(E), minutes() being the minutes since midnight on the 12-hour  *)
(* clock (12:xx AM is hour 0, 12:xx PM is hour 12), both ends inclusive;  *)
(* for '09:00 AM - 05:00 PM': 09:00 AM, 10:00 AM and 05:00 PM are inside, *)
(* 08:00 AM is outside.                                                    *)
(***************************************************************************)
MinutesSinceMidnight(c) ==
    ((c.hours % 12) + (IF c.period = "PM" THEN 12 ELSE 0)) * 60 + c.minutes

C3_SlotIsInclusiveRange ==
    last.op = "isTimeWithinSlot" =>
        /\ last.value =
              (/\ MinutesSinceMidnight(last.timeSlot[1]) <= MinutesSinceMidnight(last.time)
               /\ MinutesSinceMidnight(last.time) <= MinutesSinceMidnight(last.timeSlot[2]))
        /\ last.timeSlot = SlotDay =>
              /\ last.time \in {ClockString(9, 0, "AM"), ClockString(10, 0, "AM"),
                                ClockString(5, 0, "PM")} => last.value
              /\ last.time = ClockString(8, 0, "AM") => ~last.value

\* the call was made on a boundary: the end of the slot, in the 12 o'clock hours
C3_Witness ==
    /\ last.op = "isTimeWithinSlot"
    /\ last.time = ClockString(12, 30, "PM")
    /\ last.timeSlot = TimeSlot(ClockString(12, 30, "AM"), ClockString(12, 30, "PM"))
    /\ last.value

(***************************************************************************)
(* Vocabulary of the claims.                                               *)
(***************************************************************************)
\* a valid date value: a Date whose time is a number
ValidDate(date) == instanceofDate(date) /\ getTime(date) # NaN

\* the stored appointment a is an appointment of the doctor stored under d: it refers
\* to that doctor object, or it carries d as the id of its doctor
AppointmentOfDoctor(a, d) ==
    \/ a.doctor = findDoctorById(doctorData, d)
    \/ doctors[a.doctor].id = d

\* some stored appointment of d has exactly the timestamp t
OwnAppointmentAt(d, t) ==
    \E i \in 1..Len(appointmentData) :
        /\ AppointmentOfDoctor(appointmentData[i].value, d)
        /\ getTime(appointmentData[i].value.date) = t

\* d has a working-hours entry for the weekday of t whose slot contains the clock
\* time of t
WorksAt(d, t) ==
    LET hours == doctors[findDoctorById(doctorData, d)].hours
        weekday == WeekdayNames[((t \div 86400) % 7) + 1]
        minuteOfDay == (t % 86400) \div 60
    IN \E i \in 1..Len(hours) :
          /\ hours[i].day = weekday
          /\ MinutesSinceMidnight(hours[i].timeSlot[1]) <= minuteOfDay
          /\ minuteOfDay <= MinutesSinceMidnight(hours[i].timeSlot[2])

\* the step is a call of isDoctorAvailable for a stored doctor and a valid date
CalledIsDoctorAvailable ==
    /\ last'.op = "isDoctorAvailable"
    /\ RepoHas(doctorData, last'.doctorId)
    /\ ValidDate(last'.date)

(***************************************************************************)
(* C1.  If the appointment store holds an appointment of a stored doctor  *)
(* d whose date has exactly the timestamp t, isDoctorAvailable(d, t)      *)
(* returns false, whatever d's working hours are.                          *)
(***************************************************************************)
C1_OwnAppointmentBlocks ==
    [][(CalledIsDoctorAvailable /\ OwnAppointmentAt(last'.doctorId, getTime(last'.date)))
          => (last'.error = Missing /\ last'.value = FALSE)]_vars

\* d works at the time asked for, has an appointment then, and was reported unavailable
C1_Witness ==
    /\ last.op = "isDoctorAvailable"
    /\ last.error = Missing
    /\ last.value = FALSE
    /\ RepoHas(doctorData, last.doctorId)
    /\ ValidDate(last.date)
    /\ WorksAt(last.doctorId, getTime(last.date))
    /\ \E i \in 1..Len(appointmentData) :
          /\ appointmentData[i].value.doctor = findDoctorById(doctorData, last.doctorId)
          /\ appointmentData[i].value.date = last.date

(***************************************************************************)
(* C2.  For every stored doctor d and valid date t, isDoctorAvailable(d,  *)
(* t) returns true if and only if no stored appointment of d has the      *)
(* timestamp t and d has a working-hours entry for the weekday of t whose *)
(* slot contains the clock time of t; otherwise it returns false.         *)
(***************************************************************************)
C2_AvailableIffFreeAndWorking ==
    [][CalledIsDoctorAvailable
          => /\ last'.error = Missing
             /\ last'.value =
                   (/\ ~OwnAppointmentAt(last'.doctorId, getTime(last'.date))
                    /\ WorksAt(last'.doctorId, getTime(last'.date)))]_vars

(***************************************************************************)
(* C4.  The conflict check of isDoctorAvailable(d, t) reports a conflict  *)
(* only if some stored appointment of d has exactly the timestamp t: an   *)
(* appointment of another doctor at t, or one of d at another timestamp,  *)
(* never counts.                                                           *)
(***************************************************************************)
C4_ConflictOnlyOwnExact ==
    \A d \in DoctorKeys, t \in Timestamps :
        (RepoHas(doctorData, d) /\ hasAppointmentConflict(appointmentData, d, DateObj(t)))
        => OwnAppointmentAt(d, t)

PatientIdOf(req) == IF req.patientId # Missing THEN req.patientId ELSE OptionalId(req.patient)
DoctorIdOf(req) == IF req.doctorId # Missing THEN req.doctorId ELSE OptionalId(req.doctor)

(***************************************************************************)
(* Vocabulary of the claims about AppointmentService.execute.              *)
(***************************************************************************)
\* the step is a call of execute
CalledExecute == last'.op = "execute"

\* the date of the request is parseable: a valid Date, or a string that parses to one
ParseableDate(req) == req.date.kind \in {"Date", "string"} /\ req.date.time # NaN

PatientKnown(req) == RepoHas(patientData, PatientIdOf(req))
DoctorKnown(req) == RepoHas(doctorData, DoctorIdOf(req))

\* the availability service's answer for the request, in the state before the call
ReportedAvailable(req) ==
    LET answer == isDoctorAvailable(doctors, doctorData, appointmentData, DoctorIdOf(req),
                                    DateObj(req.date.time))
    IN answer.error = Missing /\ answer.value

RejectionErrors ==
    {"Invalid appointment date", "Patient ID and Doctor ID are required",
     "Patient not found", "Doctor not found",
     "Doctor is not available at the requested time"}

(***************************************************************************)
(* C5.  Round trip: whenever execute(request) succeeds, findById(request. *)
(* id) called next returns the record execute returned, with the same id, *)
(* date, patient reference, doctor reference and reason, and with the     *)
(* requested status, or 'scheduled' when the request gave none.           *)
(***************************************************************************)
C5_RoundTrip ==
    (last.op = "execute" /\ last.error = Missing) =>
        LET found == findById(appointmentData, last.req.id)
        IN /\ found.error = Missing
           /\ found.ret = last.ret
           /\ found.ret.id = last.req.id
           /\ found.ret.date = DateObj(last.req.date.time)
           /\ found.ret.patient = findPatientById(patientData, PatientIdOf(last.req))
           /\ found.ret.doctor = findDoctorById(doctorData, DoctorIdOf(last.req))
           /\ found.ret.reason = last.req.reason
           /\ found.ret.status =
                 (IF last.req.status = Missing THEN "scheduled" ELSE last.req.status)

\* a request that names its status, sent as the second appointment, succeeded
C5_Witness ==
    /\ last.op = "execute"
    /\ last.error = Missing
    /\ last.req.status = "completed"
    /\ Len(appointmentData) = 2
    /\ findById(appointmentData, last.req.id).ret.status = "completed"

(***************************************************************************)
(* C6 as stated.  execute with a patientId under which no patient is      *)
(* stored raises 'Patient not found' and leaves the appointment store as  *)
(* it was, whatever the doctor, date and existing appointments are.       *)
(***************************************************************************)
C6_UnknownPatientAlwaysNotFound ==
    [][(/\ CalledExecute
        /\ Truthy(PatientIdOf(last'.req)) /\ ~PatientKnown(last'.req))
          => /\ last'.error = "Patient not found"
             /\ appointmentData' = appointmentData]_vars

(***************************************************************************)
(* C6 as amended.  execute with a parseable date, a doctor id and a       *)
(* patientId under which no patient is stored raises 'Patient not found'  *)
(* and leaves the appointment store (keys, records, and the doctors the   *)
(* records refer to) as it was, whatever the doctor and the existing      *)
(* appointments are.                                                       *)
(***************************************************************************)
C6_UnknownPatientNotFound ==
    [][(/\ CalledExecute
        /\ ParseableDate(last'.req)
        /\ Truthy(DoctorIdOf(last'.req))
        /\ Truthy(PatientIdOf(last'.req)) /\ ~PatientKnown(last'.req))
          => /\ last'.error = "Patient not found"
             /\ appointmentData' = appointmentData
             /\ doctors' = doctors]_vars

\* rejected for the unknown patient while the store holds an appointment and the
\* doctor asked for is stored
C6_Witness ==
    /\ last.op = "execute"
    /\ last.error = "Patient not found"
    /\ ~RepoHas(patientData, PatientIdOf(last.req))
    /\ RepoHas(doctorData, DoctorIdOf(last.req))
    /\ Len(appointmentData) > 0

(***************************************************************************)
(* C7.  execute rejects each kind of bad request with its own error, in   *)
(* this order: unparseable date, missing patient or doctor id, unknown    *)
(* patient, unknown doctor, doctor unavailable; when several failures     *)
(* apply, the earliest in this order is the one reported.                  *)
(***************************************************************************)
FirstRejection(req) ==
    IF ~ParseableDate(req) THEN "Invalid appointment date"
    ELSE IF ~Truthy(PatientIdOf(req)) \/ ~Truthy(DoctorIdOf(req))
    THEN "Patient ID and Doctor ID are required"
    ELSE IF ~PatientKnown(req) THEN "Patient not found"
    ELSE IF ~DoctorKnown(req) THEN "Doctor not found"
    ELSE IF ~ReportedAvailable(req) THEN "Doctor is not available at the requested time"
    ELSE Missing

C7_RejectionOrder ==
    [][CalledExecute =>
          \E rejection \in {FirstRejection(last'.req)} :
             IF rejection # Missing
             THEN last'.error = rejection
             ELSE last'.error \notin RejectionErrors]_vars

\* several failures applied (bad date, no patient id) and the date was reported
C7_Witness ==
    /\ last.op = "execute"
    /\ last.error = "Invalid appointment date"
    /\ PatientIdOf(last.req) = Missing
    /\ RepoHas(doctorData, DoctorIdOf(last.req))

(***************************************************************************)
(* C8.  Every successful execute sends the notification exactly once,     *)
(* after the appointment has been added to the store and before execute   *)
(* returns, to the scheduled patient's e-mail address and naming the      *)
(* scheduled doctor; an execute that raises sends none.                    *)
(***************************************************************************)
C8_NotifiedOnceAfterPersist ==
    last.op = "execute" =>
        IF last.error = Missing
        THEN /\ Len(last.events) = 2
             /\ last.events[1] = Persisted(last.req.id)
             /\ RepoHas(appointmentData, last.req.id)
             /\ last.events[2].event = "notify"
             /\ last.events[2].mail.to =
                   patients[findPatientById(patientData, PatientIdOf(last.req))].email
             /\ last.events[2].mail.doctorName =
                   doctors[findDoctorById(doctorData, DoctorIdOf(last.req))].name
        ELSE \A i \in 1..Len(last.events) : last.events[i].event # "notify"

\* the second doctor was scheduled and the e-mail names that doctor
C8_Witness ==
    /\ last.op = "execute"
    /\ last.error = Missing
    /\ DoctorIdOf(last.req) = "d2"
    /\ Len(last.events) = 2
    /\ last.events[2].mail.doctorName = "Jones"

(***************************************************************************)
(* C10.  After any sequence of addDoctorWorkingHours and                  *)
(* removeWorkingHours calls no doctor's working-hours list holds two      *)
(* entries with the same day and timeSlot: adding a pair the doctor       *)
(* already has raises 'Working hours already exists for this doctor' and  *)
(* leaves the list unchanged.                                              *)
(***************************************************************************)
NoDuplicateHours(docs) ==
    \A r \in DOMAIN docs :
        \A i, j \in 1..Len(docs[r].hours) : i # j => docs[r].hours[i] # docs[r].hours[j]

C10_NoDuplicateWorkingHours ==
    [][/\ NoDuplicateHours(doctors')
       /\ (/\ last'.op = "addDoctorWorkingHours"
           /\ RepoHas(doctorData, last'.doctorId)
           /\ \E i \in 1..Len(doctors[findDoctorById(doctorData, last'.doctorId)].hours) :
                 doctors[findDoctorById(doctorData, last'.doctorId)].hours[i]
                    = WorkingHour(last'.day, last'.timeSlot))
          => /\ last'.error = "Working hours already exists for this doctor"
             /\ doctors' = doctors]_vars

\* a pair that is not the last of a list of three was added again and refused
C10_Witness ==
    /\ last.op = "addDoctorWorkingHours"
    /\ last.error = "Working hours already exists for this doctor"
    /\ LET hours == doctors[findDoctorById(doctorData, last.doctorId)].hours
       IN /\ Len(hours) = 3
          /\ hours[1] = WorkingHour(last.day, last.timeSlot)

(***************************************************************************)
(* C11.  Removing working hours (day, timeSlot) from a stored doctor      *)
(* removes exactly the entries that match both the day and the timeSlot:  *)
(* every entry that differs in the day or in the timeSlot stays in the    *)
(* list, in its original order.                                            *)
(***************************************************************************)
C11_RemovesExactlyMatching ==
    [][(last'.op = "removeWorkingHours" /\ RepoHas(doctorData, last'.doctorId))
          => doctors'[findDoctorById(doctorData, last'.doctorId)].hours
                = SelectSeq(doctors[findDoctorById(doctorData, last'.doctorId)].hours,
                            LAMBDA hour : ~(hour.day = last'.day
                                            /\ hour.timeSlot = last'.timeSlot))]_vars

(***************************************************************************)
(* C12.  Repository.add(id, entity) with an id already present raises     *)
(* 'Entity with id <id> already exists' and leaves the store unchanged:   *)
(* the entry under id is still the previously stored entity and the       *)
(* number of entries is the same.                                          *)
(***************************************************************************)
C12_DuplicateAddRaises ==
    [][(last'.op = "add" /\ RepoHas(appointmentData, last'.id))
          => /\ last'.error \in {"Entity with id " \o last'.id \o " already exists",
                                 "Entity with id " \o last'.id \o " already exists."}
             /\ RepositoryFindById(appointmentData', last'.id)
                   = RepositoryFindById(appointmentData, last'.id)
             /\ Len(findAll(appointmentData')) = Len(findAll(appointmentData))
             /\ appointmentData' = appointmentData]_vars

\* another entity was added under a stored id and refused; the first one is still there
C12_Witness ==
    /\ last.op = "add"
    /\ last.error = AlreadyExists(last.id)
    /\ Len(appointmentData) = 2
    /\ RepoHas(appointmentData, last.id)
    /\ RepositoryFindById(appointmentData, last.id) # last.entity

(***************************************************************************)
(* C13.  On an id that is not in the store, Repository.update(id, e) and  *)
(* Repository.delete(id) raise and leave the store unchanged (update      *)
(* never creates the entry), while Repository.findById(id) returns an     *)
(* absent result without raising.                                          *)
(***************************************************************************)
C13_AbsentIdRaisesOrAbsent ==
    [][(last'.op \in {"update", "delete", "findById"}
           /\ ~RepoHas(appointmentData, last'.id))
          => /\ last'.op \in {"update", "delete"}
                   => /\ last'.error # Missing
                      /\ appointmentData' = appointmentData
                      /\ ~RepoHas(appointmentData', last'.id)
             /\ last'.op = "findById"
                   => /\ last'.error = Missing
                      /\ last'.value = Undefined
                      /\ appointmentData' = appointmentData]_vars

\* an update of an id that is not among the stored ones was refused
C13_Witness ==
    /\ last.op = "update"
    /\ last.error = DoesNotExist(last.id)
    /\ Len(appointmentData) = 2
    /\ ~RepoHas(appointmentData, last.id)

(***************************************************************************)
(* C14.  After any sequence of successful Repository add, update and      *)
(* delete calls, findById(id) returns the entity most recently stored     *)
(* under id by add or update (absent after delete), and findAll() returns *)
(* exactly the stored entities, one per key, in the order in which their  *)
(* keys were inserted; update replaces the entity without changing the    *)
(* number of entries.                                                      *)
(***************************************************************************)
\* the keys of the Map, in its iteration order
Keys(data) == [i \in 1..Len(data) |-> data[i].key]

\* a sequence without the element at position i
Without(seq, i) == SubSeq(seq, 1, i - 1) \o SubSeq(seq, i + 1, Len(seq))

\* position of key id in the sequence of keys
KeyIndex(keys, id) == CHOOSE i \in 1..Len(keys) : keys[i] = id

C14_StoreIsInsertionOrderedMap ==
    [][LET keys == Keys(appointmentData)
           all == findAll(appointmentData)
       IN /\ \A i, j \in 1..Len(Keys(appointmentData')) :
                i # j => Keys(appointmentData')[i] # Keys(appointmentData')[j]
          /\ last'.op = "findById"
                => last'.value = RepositoryFindById(appointmentData, last'.id)
          /\ last'.op = "findAll" => last'.value = all
          /\ (last'.op \in {"add", "update", "delete"} /\ last'.error = Missing)
                => /\ \A k \in RepoIds \ {last'.id} :
                         RepositoryFindById(appointmentData', k)
                            = RepositoryFindById(appointmentData, k)
                   /\ last'.op = "add"
                         => /\ Keys(appointmentData') = Append(keys, last'.id)
                            /\ findAll(appointmentData') = Append(all, last'.entity)
                            /\ RepositoryFindById(appointmentData', last'.id) = last'.entity
                   /\ last'.op = "update"
                         => /\ Keys(appointmentData') = keys
                            /\ findAll(appointmentData')
                                  = [all EXCEPT ![KeyIndex(keys, last'.id)] = last'.entity]
                            /\ RepositoryFindById(appointmentData', last'.id) = last'.entity
                            /\ Len(findAll(appointmentData')) = Len(all)
                   /\ last'.op = "delete"
                         => /\ Keys(appointmentData') = Without(keys, KeyIndex(keys, last'.id))
                            /\ findAll(appointmentData')
                                  = Without(all, KeyIndex(keys, last'.id))
                            /\ RepositoryFindById(appointmentData', last'.id) = Undefined]_vars

\* the first of three entries was updated; key 1 was inserted last
C14_Witness ==
    /\ last.op = "update"
    /\ last.error = Missing
    /\ Keys(appointmentData) = <<"2", "3", "1">>
    /\ last.id = "2"
    /\ findAll(appointmentData) = <<last.entity, [name |-> "Entity 1"], [name |-> "Entity 1"]>>
    /\ last.entity = [name |-> "Entity 2"]

(***************************************************************************)
(* C15.  Each specialized repository filter is a simple predicate filter  *)
(* over findAll(): findByDoctorId(d), findByPatientId(p) and              *)
(* findByStatus(s) return exactly the stored appointments whose doctor    *)
(* id, patient id or status equals the argument, and no others.           *)
(***************************************************************************)
C15_FiltersArePredicateFilters ==
    /\ \A d \in DoctorKeys :
          findByDoctorId(appointmentData, d)
             = SelectSeq(findAll(appointmentData),
                         LAMBDA appointment : doctors[appointment.doctor].id = d)
    /\ \A p \in PatientKeys :
          findByPatientId(appointmentData, p)
             = SelectSeq(findAll(appointmentData),
                         LAMBDA appointment : patients[appointment.patient].id = p)
    /\ \A status \in {"scheduled", "completed"} :
          findByStatus(appointmentData, status)
             = SelectSeq(findAll(appointmentData),
                         LAMBDA appointment : appointment.status = status)

(***************************************************************************)
(* C16.  AppointmentService.execute accepts both request shapes: a        *)
(* request carrying nested {patient: {id}, doctor: {id}} is resolved to   *)
(* the same patient and doctor, passes or fails the same checks, and      *)
(* stores the same appointment as the flat request {patientId, doctorId}  *)
(* with the same ids.                                                      *)
(***************************************************************************)
\* the request carries its ids in the nested shape only
Nested(req) ==
    /\ req.patientId = Missing /\ req.doctorId = Missing
    /\ req.patient # Undefined /\ req.doctor # Undefined

\* the flat request with the same ids
Flat(req) ==
    Request(req.id, req.date, req.patient.id, req.doctor.id, req.reason, req.status)

C16_NestedShapeSameAsFlat ==
    [][(last'.op = "execute" /\ Nested(last'.req))
          => \E flat \in {execute(doctors, doctorData, patients, patientData,
                                  appointmentData, Flat(last'.req))} :
                /\ last'.error = flat.error
                /\ last'.ret = flat.ret
                /\ last'.events = flat.events
                /\ appointmentData' = flat.appointmentData
                /\ doctors' = flat.doctors
                /\ last'.error = Missing
                      => /\ last'.ret.patient
                              = findPatientById(patientData, last'.req.patient.id)
                         /\ last'.ret.doctor
                              = findDoctorById(doctorData, last'.req.doctor.id)]_vars

\* a nested request was accepted and its appointment stored for the second doctor
C16_Witness ==
    /\ last.op = "execute"
    /\ Nested(last.req)
    /\ last.error = Missing
    /\ last.req.doctor.id = "d2"
    /\ RepoHas(appointmentData, last.req.id)
    /\ RepoGet(appointmentData, last.req.id, Undefined).doctor
          = findDoctorById(doctorData, "d2")
    /\ RepoGet(appointmentData, last.req.id, Undefined).patient
          = findPatientById(patientData, last.req.patient.id)

(***************************************************************************)
(* C17 as stated.  Of any two scheduling requests for the same doctor and *)
(* the same timestamp that the server has handled, at most one succeeded  *)
(* and the other failed with 'Doctor is not available at the requested    *)
(* time'.                                                                  *)
(***************************************************************************)
\* two different handlers have run execute for the same doctor and timestamp
SameDoctorAndTime(g, h) ==
    /\ g # h
    /\ handlers[g].pc # "idle" /\ handlers[h].pc # "idle"
    /\ DoctorIdOf(handlers[g].req) = DoctorIdOf(handlers[h].req)
    /\ getTime(handlers[g].req.date) = getTime(handlers[h].req.date)

DoctorRequests ==
    {"POST working-hours", "DELETE working-hours", "GET working-hours",
     "POST availability"}

C18_UnknownDoctorIs404 ==
    (last.op \in DoctorRequests /\ ~RepoHas(doctorData, last.doctorId))
    => /\ last.status = 404
       /\ last.body = ErrorBody(last.error)

(***************************************************************************)
(* C19.  The availability endpoint, called for an existing doctor with a  *)
(* valid ISO date in the request body {date}, answers with status 200 and *)
(* {available: b}, where b is the result of isDoctorAvailable for that    *)
(* doctor and date.                                                        *)
(***************************************************************************)
C19_AvailabilityAnswers200 ==
    (/\ last.op = "POST availability"
     /\ RepoHas(doctorData, last.doctorId)
     /\ last.date # Undefined
     /\ ValidDate(newDate(last.date)))
    => /\ last.status = 200
       /\ last.body =
             [available |->
                 isDoctorAvailable(doctors, doctorData, appointmentData, last.doctorId,
                                   newDate(last.date)).value]

(***************************************************************************)
(* C20.  Listing working hours for an existing doctor (GET                *)
(* /api/doctors/:id/working-hours, listWorkingHours) succeeds and returns *)
(* exactly the doctor's current {day, timeSlot} entries, in insertion     *)
(* order.                                                                  *)
(***************************************************************************)
C20_ListReturnsCurrentHours ==
    (last.op = "GET working-hours" /\ RepoHas(doctorData, last.doctorId))
    => /\ last.error = Missing
       /\ last.status = 200
       /\ last.body = doctors[findDoctorById(doctorData, last.doctorId)].hours

(***************************************************************************)
(* C21.  A patient cannot have overlapping appointments: after any        *)
(* sequence of AppointmentService.execute calls, no patient is referenced *)
(* by two stored appointments that have the same timestamp.               *)
(***************************************************************************)
C21_NoPatientOverlap ==
    \A i, j \in 1..Len(appointmentData) :
        (i # j /\ appointmentData[i].value.patient = appointmentData[j].value.patient)
        => getTime(appointmentData[i].value.date) # getTime(appointmentData[j].value.date)

\* the patient has an appointment with one doctor and asked for another doctor, who
\* works then and has no appointment, at the same time: refused
C21_Witness ==
    /\ last.op = "execute"
    /\ last.error = "Doctor is not available at the requested time"
    /\ DoctorKnown(last.req)
    /\ WorksAt(DoctorIdOf(last.req), getTime(last.req.date))
    /\ \A i \in 1..Len(appointmentData) :
          appointmentData[i].value.doctor # findDoctorById(doctorData, DoctorIdOf(last.req))
    /\ \E i \in 1..Len(appointmentData) :
          /\ appointmentData[i].value.patient
                = findPatientById(patientData, PatientIdOf(last.req))
          /\ getTime(appointmentData[i].value.date) = getTime(last.req.date)

(***************************************************************************)
(* C25.  No double booking: in every state reachable by addDoctor,        *)
(* working-hours additions, addPatient and execute calls, the appointment *)
(* store never holds two appointments of the same doctor with the same    *)
(* timestamp.                                                              *)
(***************************************************************************)
\* two stored appointments refer to the same doctor object or carry the same doctor id
SameDoctor(a, b) ==
    \/ a.doctor = b.doctor
    \/ doctors[a.doctor].id = doctors[b.doctor].id

C25_NoDoubleBooking ==
    \A i, j \in 1..Len(appointmentData) :
        (i # j /\ SameDoctor(appointmentData[i].value, appointmentData[j].value))
        => getTime(appointmentData[i].value.date) # getTime(appointmentData[j].value.date)

\* the doctor has two appointments, a minute apart, and a further request for one of
\* these times was refused
C25_Witness ==
    /\ last.op = "execute"
    /\ last.error = "Doctor is not available at the requested time"
    /\ Len(appointmentData) = 2
    /\ \A i \in 1..2 :
          appointmentData[i].value.doctor = findDoctorById(doctorData, DoctorIdOf(last.req))
    /\ getTime(appointmentData[1].value.date) # getTime(appointmentData[2].value.date)
    /\ getTime(appointmentData[2].value.date) = getTime(last.req.date)

(***************************************************************************)
(* C22 as stated.  A doctor created through addDoctor starts with an      *)
(* empty working-hours list, and while a doctor's list is empty           *)
(* isDoctorAvailable returns false for every date and execute for that    *)
(* doctor always fails with 'Doctor is not available at the requested     *)
(* time'.                                                                  *)
(***************************************************************************)
\* the working hours of the doctor stored under d
HoursOf(d) == doctors[findDoctorById(doctorData, d)].hours

\* the last call was addDoctor and stored a doctor, or was isDoctorAvailable with a
\* Date for a stored doctor without working hours
C22_StartsEmptyNeverAvailable ==
    /\ (last.op = "addDoctor" /\ last.error = Missing) => HoursOf(last.doctorId) = <<>>
    /\ (/\ last.op = "isDoctorAvailable"
        /\ RepoHas(doctorData, last.doctorId)
        /\ instanceofDate(last.date)
        /\ HoursOf(last.doctorId) = <<>>)
       => (last.error = Missing /\ last.value = FALSE)

Overlap(s, t) ==
    /\ MinutesSinceMidnight(s[1]) <= MinutesSinceMidnight(t[2])
    /\ MinutesSinceMidnight(t[1]) <= MinutesSinceMidnight(s[2])

C23_NoOverlappingHours ==
    \A r \in DOMAIN doctors :
        \A i, j \in 1..Len(doctors[r].hours) :
            (i # j /\ doctors[r].hours[i].day = doctors[r].hours[j].day)
            => ~Overlap(doctors[r].hours[i].timeSlot, doctors[r].hours[j].timeSlot)

(***************************************************************************)
(* C24.  No duplicate allergies: after any sequence of addPatientAllergy  *)
(* calls, a patient's allergy list never holds two allergies of equal     *)
(* type; adding an allergy the patient already has raises nothing and     *)
(* leaves the list unchanged, adding to an unknown patient raises         *)
(* 'Patient not found', and a value that is not an Allergy (for a stored  *)
(* patient) raises 'Invalid allergy'.                                      *)
(***************************************************************************)
NoDuplicateAllergies(pats) ==
    \A r \in DOMAIN pats :
        \A i, j \in 1..Len(pats[r].allergies) :
            i # j => pats[r].allergies[i].type # pats[r].allergies[j].type

\* the patient stored under p has an allergy of this type
HasAllergyOfType(p, type) ==
    \E i \in 1..Len(patients[findPatientById(patientData, p)].allergies) :
        patients[findPatientById(patientData, p)].allergies[i].type = type

C24_NoDuplicateAllergies ==
    [][/\ NoDuplicateAllergies(patients')
       /\ last'.op = "addPatientAllergy"
             => IF ~RepoHas(patientData, last'.patientId)
                THEN last'.error = "Patient not found" /\ patients' = patients
                ELSE IF ~instanceofAllergy(last'.allergy)
                THEN last'.error = "Invalid allergy" /\ patients' = patients
                ELSE IF HasAllergyOfType(last'.patientId, last'.allergy.type)
                THEN last'.error = Missing /\ patients' = patients
                ELSE /\ last'.error = Missing
                     /\ patients'[findPatientById(patientData, last'.patientId)].allergies
                           = Append(patients[findPatientById(patientData,
                                                             last'.patientId)].allergies,
                                    last'.allergy)]_vars

\* the patient has three allergies and the first of them was added again
C24_Witness ==
    /\ last.op = "addPatientAllergy"
    /\ last.error = Missing
    /\ RepoHas(patientData, last.patientId)
    /\ Len(patients[findPatientById(patientData, last.patientId)].allergies) = 3
    /\ patients[findPatientById(patientData, last.patientId)].allergies[1] = last.allergy

(***************************************************************************)
(* C26: a failed AppointmentService.execute has no effect: whichever      *)
(* error it raises, the appointment store, the stored doctors and the     *)
(* stored patients, the id fields of all stored entities included, are    *)
(* exactly as before the call, and no notification is sent.                *)
(***************************************************************************)
C26_FailedExecuteHasNoEffect ==
    [][(last'.op = "execute" /\ last'.error # Missing)
          => /\ appointmentData' = appointmentData
             /\ doctorData' = doctorData
             /\ doctors' = doctors
             /\ patientData' = patientData
             /\ patients' = patients
             /\ last'.events = <<>>]_vars

(***************************************************************************)
(* C27: the availability check and the repository filters are read-only:  *)
(* a call of isDoctorAvailable, findByDoctorId or findByPatientId changes *)
(* no stored entity: every stored appointment still references the same   *)
(* doctor and patient with the same ids, and every stored doctor keeps    *)
(* its id.                                                                 *)
(***************************************************************************)
C27_QueriesAreReadOnly ==
    [][last'.op \in {"isDoctorAvailable", "findByDoctorId", "findByPatientId"}
          => /\ appointmentData' = appointmentData
             /\ doctorData' = doctorData
             /\ patientData' = patientData
             /\ \A i \in 1..Len(doctors) : doctors'[i].id = doctors[i].id
             /\ \A i \in 1..Len(patients) : patients'[i].id = patients[i].id]_vars

(***************************************************************************)
(* C28: key and identity stay consistent: in every reachable state each   *)
(* doctor stored under key k in the doctor repository has id k, and each  *)
(* appointment stored under key k has id k.                                *)
(***************************************************************************)
C28_KeyMatchesId ==
    /\ \A i \in 1..Len(doctorData) : doctors[doctorData[i].value].id = doctorData[i].key
    /\ \A i \in 1..Len(appointmentData) :
          appointmentData[i].value.id = appointmentData[i].key

(***************************************************************************)
(* C29: a doctor operation addressed to id k touches only the repository  *)
(* entry under key k: deleteDoctor(k) removes the entry stored under k    *)
(* and no other, addDoctorWorkingHours(k, ...) and removeWorkingHours(k,  *)
(* ...) re-store the doctor under key k only, and every other key of the  *)
(* doctor repository maps to the same doctor entity as before.             *)
(***************************************************************************)
C29_OnlyAddressedKeyTouched ==
    [][last'.op \in {"deleteDoctor", "addDoctorWorkingHours", "removeWorkingHours"}
          => /\ \A k \in DoctorKeys \ {last'.doctorId} :
                   findDoctorById(doctorData', k) = findDoctorById(doctorData, k)
             /\ (last'.op = "deleteDoctor" /\ last'.error = Missing)
                   => ~RepoHas(doctorData', last'.doctorId)
             /\ (last'.op # "deleteDoctor" /\ RepoHas(doctorData, last'.doctorId))
                   => findDoctorById(doctorData', last'.doctorId)
                         = findDoctorById(doctorData, last'.doctorId)]_vars

(***************************************************************************)
(* C30: the two implementations of the working-hours test agree: for      *)
(* every well-formed clock time T and slot 'S - E', the 12:xx AM and      *)
(* 12:xx PM hours included, DoctorWorkingHoursService.isTimeWithinSlot    *)
(* returns the same boolean as DoctorAvailabilityService.isTimeWithinSlot. *)
(***************************************************************************)
C30_SlotTestsAgree ==
    last.op = "workingHoursIsTimeWithinSlot"
        => last.value = isTimeWithinSlot(last.time, last.timeSlot)

====
